---------------------------- MODULE Spec2Model ----------------------------
(***************************************************************************)
(* The chat endpoint of src/server/api/chat.post.ts as a state machine.    *)
(* One request is handled at a time (no state is shared between requests): *)
(* pc is the handler's position, the other variables are its locals, the   *)
(* frames written to the UI message stream, and what the handler returns   *)
(* or throws.                                                              *)
(*                                                                         *)
(* JavaScript values are tagged records: [t |-> "undefined"],              *)
(* [t |-> "null"], [t |-> "string", v |-> <<characters>>],                 *)
(* [t |-> "number", n |-> k], [t |-> "nan"], [t |-> "array", v |-> <<..>>].*)
(* Text is a sequence of sections (one per `demoText +=`), each section a  *)
(* sequence of tokens; an address is spelled character by character.       *)
(***************************************************************************)
EXTENDS Integers, Sequences, FiniteSets, TLC

----------------------------------------------------------------------------
(* Bounds of the model *)

MaxAddrLen == 18      \* longest wallet address drawn
MaxPositions == 2     \* longest positions list drawn
MaxStrategies == 4    \* longest strategy catalogue drawn
MaxAPY == 3           \* APYs are drawn from 1..MaxAPY
MaxToolCalls == 2     \* tool invocations of one model session

----------------------------------------------------------------------------
(* JavaScript values *)

Undefined == [t |-> "undefined"]
Null == [t |-> "null"]
NaN == [t |-> "nan"]
Num(k) == [t |-> "number", n |-> k]
Str(chars) == [t |-> "string", v |-> chars]
Arr(elems) == [t |-> "array", v |-> elems]

\* ToBoolean: what `!x`, `x || y`, `x && y`, `if (x)` and filter(Boolean) test
Truthy(x) ==
  CASE x.t = "undefined" -> FALSE
    [] x.t = "null" -> FALSE
    [] x.t = "nan" -> FALSE
    [] x.t = "number" -> x.n # 0
    [] x.t = "string" -> x.v # <<>>
    [] OTHER -> TRUE

IsArray(x) == x.t = "array"

Digits == <<"0", "1", "2", "3", "4", "5", "6", "7", "8", "9">>

DigitValue(c) == (CHOOSE i \in 1..10 : Digits[i] = c) - 1

IsDigit(c) == \E i \in 1..10 : Digits[i] = c

RECURSIVE DecimalValue(_)
DecimalValue(chars) ==
  IF chars = <<>> THEN 0
  ELSE 10 * DecimalValue(SubSeq(chars, 1, Len(chars) - 1)) + DigitValue(chars[Len(chars)])

\* Number(x) for the values the model draws
ToNumber(x) ==
  CASE x.t = "number" -> x
    [] x.t = "nan" -> NaN
    [] x.t = "undefined" -> NaN
    [] x.t = "null" -> Num(0)
    [] x.t = "string" ->
         IF \A i \in 1..Len(x.v) : IsDigit(x.v[i]) THEN Num(DecimalValue(x.v)) ELSE NaN
    [] OTHER -> IF x.v = <<>> THEN Num(0) ELSE NaN

\* a + b on numbers
JsAdd(a, b) == IF a.t = "nan" \/ b.t = "nan" THEN NaN ELSE Num(a.n + b.n)

\* x || y
JsOr(x, y) == IF Truthy(x) THEN x ELSE y

----------------------------------------------------------------------------
VARIABLES
  catalog,              \* the strategy data behind executeFindYieldStrategies
  env,                  \* process.env.ANTHROPIC_API_KEY
  pc,                   \* position of the handler
  body,                 \* readBody(event)
  apiKey,               \* the credential as this request read it
  hasApiKey,
  balances,
  positionsList,
  totalPositionsValue,
  balancesResult,
  tokenSymbols,
  strategyResult,
  suggestedStrategies,
  demoText,
  frames,               \* what writer.write has put on the stream, in order
  systemPrompt,
  effects,              \* env reads, domain-function calls and model sessions of this request
  toolCalls,            \* how many tools the model session has called
  lastTool,             \* the latest tool call and its result
  thrown,               \* the exception the try block raised
  response,             \* what the handler returned or threw
  mode,                 \* the branch line 61 took: "demo", "live", or "none" before it
  lastDemo              \* the previous Demo response (kept by SpecPair only)

vars == <<catalog, env, pc, body, apiKey, hasApiKey, balances, positionsList,
          totalPositionsValue, balancesResult, tokenSymbols, strategyResult,
          suggestedStrategies, demoText, frames, systemPrompt, effects,
          toolCalls, lastTool, thrown, response, mode, lastDemo>>


----------------------------------------------------------------------------
(* Array and string helpers of the JavaScript runtime *)

Min(a, b) == IF a < b THEN a ELSE b
Max(a, b) == IF a > b THEN a ELSE b

\* seq.slice(from, to) with 0 <= from, 0 <= to
Slice(seq, from, to) == SubSeq(seq, from + 1, Min(to, Len(seq)))

\* seq.slice(-k): the last k elements (the whole of a shorter seq)
SliceLast(seq, k) == SubSeq(seq, Max(Len(seq) - k, 0) + 1, Len(seq))

\* lines.join('\n'): the lines' tokens with a newline token between them
RECURSIVE JoinLines(_)
JoinLines(lines) ==
  IF lines = <<>> THEN <<>>
  ELSE IF Len(lines) = 1 THEN lines[1]
  ELSE lines[1] \o <<"\n">> \o JoinLines(Tail(lines))

\* three digits of a thousands group
Pad3(k) ==
  IF k < 10 THEN "00" \o ToString(k)
  ELSE IF k < 100 THEN "0" \o ToString(k)
  ELSE ToString(k)

\* integer part with en-US grouping
RECURSIVE Grouped(_)
Grouped(k) == IF k < 1000 THEN ToString(k) ELSE Grouped(k \div 1000) \o "," \o Pad3(k % 1000)


----------------------------------------------------------------------------
(* The handler's pure parts *)

\* line 50: destructuring an absent body raises a TypeError
DestructureThrows(b) == b.t # "object"

TypeErrorThrown == [statusCode |-> 0, message |-> "TypeError: cannot destructure body"]

\* line 52 without the Array.isArray test
MessagesInvalid_FalsyOnly(messages) == ~Truthy(messages)

\* line 52
MessagesInvalid(messages) == ~Truthy(messages) \/ ~IsArray(messages)

\* lines 53-56
InvalidRequestError ==
  [statusCode |-> 400, message |-> "Invalid request: messages array required"]

PlaceholderKey == Str(<<"sk-ant-your-key-here">>)

\* line 60 without the placeholder test
HasApiKey_IgnoresPlaceholder(key) == Truthy(key)

\* line 60: apiKey && apiKey !== 'sk-ant-your-key-here'
HasApiKey(key) == Truthy(key) /\ key # PlaceholderKey

\* lines 62-63: Array.isArray(x) ? x : []
ArrayOrEmpty(x) == IF IsArray(x) THEN x.v ELSE <<>>

\* position?.currentValue
CurrentValueOf(position) ==
  IF position.t \in {"null", "undefined"} THEN Undefined ELSE position.currentValue

\* line 65: Number(position?.currentValue || 0)
PositionValue(position) == ToNumber(JsOr(CurrentValueOf(position), Num(0)))

\* lines 64-67: positionsList.reduce((sum, position) => sum + ..., 0)
RECURSIVE ReducePositions(_, _)
ReducePositions(sum, list) ==
  IF list = <<>> THEN sum
  ELSE ReducePositions(JsAdd(sum, PositionValue(Head(list))), Tail(list))

TotalPositionsValue(list) == ReducePositions(Num(0), list)

\* balance?.token?.symbol
SymbolOf(balance) ==
  IF balance.t \in {"null", "undefined"} THEN Undefined ELSE balance.token.symbol

\* line 69: balances.map(...).filter(Boolean)
TokenSymbols(list) == SelectSeq([i \in 1..Len(list) |-> SymbolOf(list[i])], Truthy)

\* line 71: tokenSymbols.length > 0 ? tokenSymbols : undefined
TokensFilter(symbols) == IF Len(symbols) > 0 THEN Arr(symbols) ELSE Undefined

\* line 74 with the operands swapped
CompareApy_Ascending(a, b) == a.apy - b.apy

\* line 74: (a, b) => b.apy - a.apy
CompareApy(a, b) == b.apy - a.apy

\* Array.prototype.sort is stable: x goes into the sorted list after every
\* element that the comparator does not put behind it
RECURSIVE InsertByApy(_, _)
InsertByApy(sorted, x) ==
  IF sorted = <<>> THEN <<x>>
  ELSE IF CompareApy(Head(sorted), x) > 0 THEN <<x>> \o sorted
  ELSE <<Head(sorted)>> \o InsertByApy(Tail(sorted), x)

\* line 74: .sort((a, b) => b.apy - a.apy)
RECURSIVE SortByApy(_)
SortByApy(seq) ==
  IF seq = <<>> THEN <<>>
  ELSE InsertByApy(SortByApy(SubSeq(seq, 1, Len(seq) - 1)), seq[Len(seq)])

\* lines 73-75: [...strategies].sort(...).slice(0, 3)
SuggestedStrategies(strategies) == Slice(SortByApy(strategies), 0, 3)

\* lines 77-78, for whole-dollar amounts and NaN
FormatUsd(value) ==
  IF value.t = "nan" THEN "$NaN" ELSE "$" \o Grouped(value.n) \o ".00"

\* lines 79-80 with the threshold off by one
FormatAddress_OffByOne(address) ==
  IF Len(address) >= 10
  THEN Slice(address, 0, 6) \o <<".", ".", ".">> \o SliceLast(address, 4)
  ELSE address

\* lines 79-80
FormatAddress(address) ==
  IF Len(address) > 10
  THEN Slice(address, 0, 6) \o <<".", ".", ".">> \o SliceLast(address, 4)
  ELSE address

\* strategy.apy.toFixed(1), for whole-percent APYs
ToFixed1(apy) == ToString(apy) \o ".0"


----------------------------------------------------------------------------
(* The domain computation functions of ~/lib/ai-tools, as the specification *)
(* describes them: pure functions of their inputs and the mock data.        *)

RECURSIVE SumValueUSD(_)
SumValueUSD(list) ==
  IF list = <<>> THEN 0 ELSE Head(list).valueUSD.n + SumValueUSD(Tail(list))

\* total USD value and the normalized balances of the mock snapshot
ExecuteGetWalletBalances(list) ==
  [totalValueUSD |-> Num(SumValueUSD(list)), balances |-> list]

\* the catalogue's strategies for the given tokens; no tokens: unconstrained
ExecuteFindYieldStrategies(tokens) ==
  [strategies |->
     IF tokens.t = "undefined" THEN catalog
     ELSE LET wanted == {tokens.v[i] : i \in 1..Len(tokens.v)}
              Matches(strategy) == strategy.token \in wanted
          IN SelectSeq(catalog, Matches)]

\* NotFound for an id the catalogue does not hold
ExecuteGetStrategyDetails(strategyId) ==
  IF \E i \in 1..Len(catalog) : catalog[i].id = strategyId
  THEN [threw |-> FALSE, value |-> "details"]
  ELSE [threw |-> TRUE, value |-> "NotFound"]

\* InvalidAmount for an unparsable or non-positive amount, NotFound as above
ExecutePreviewDeposit(strategyId, amount) ==
  IF ToNumber(amount).t = "nan" \/ ToNumber(amount).n <= 0
  THEN [threw |-> TRUE, value |-> "InvalidAmount"]
  ELSE IF ExecuteGetStrategyDetails(strategyId).threw
  THEN [threw |-> TRUE, value |-> "NotFound"]
  ELSE [threw |-> FALSE, value |-> "preview"]

\* the caller's positions
ExecuteGetPositions(list) == list

----------------------------------------------------------------------------
(* The Demo text, lines 82-117: one section per `demoText +=` *)

\* line 82 with the wording following the configured credential
Disclosure_ByCredential ==
  IF apiKey = Undefined
  THEN <<"Demo mode: ANTHROPIC_API_KEY is not set, so responses are scripted.">>
  ELSE <<"Demo mode: ANTHROPIC_API_KEY is a placeholder, so responses are scripted.">>

\* line 82
Disclosure == <<"Demo mode: ANTHROPIC_API_KEY is not set, so responses are scripted.">>

\* line 85
WalletSection(walletAddress) == <<"\n\nWallet: ">> \o FormatAddress(walletAddress.v)

\* line 86
TotalBalanceSection(result) == <<"\nTotal balance: ", FormatUsd(result.totalValueUSD)>>

\* lines 88-91
BalanceLine(balance) ==
  LET symbol == JsOr(balance.token.symbol, Str(<<"TOKEN">>))
  IN <<"- ", symbol.v[1], ": ", balance.balance, " (~", FormatUsd(balance.valueUSD), ")">>

\* lines 87-95
BalancesSection(result) ==
  IF Len(result.balances) > 0
  THEN <<"\n\nBalances:\n">> \o JoinLines([i \in 1..Len(result.balances) |-> BalanceLine(result.balances[i])])
  ELSE <<"\n\nBalances: none yet. Connect a wallet to generate mock balances.">>

\* lines 97-101
PositionsSection(list, total) ==
  IF Len(list) > 0
  THEN <<"\n\nActive positions: ", ToString(Len(list)), " (total ", FormatUsd(total), ")">>
  ELSE <<"\n\nActive positions: none yet.">>

\* lines 104-107; the separator is the source's three characters U+00E2 U+20AC U+201D
StrategyLine(strategy) ==
  <<"- ", strategy.name, " (", strategy.protocol, ") [U+00E2 U+20AC U+201D] ",
    ToFixed1(strategy.apy), "% APY, ", strategy.riskLevel, " risk">>

\* lines 103-109: no section for an empty selection
StrategiesSections(suggested) ==
  IF Len(suggested) > 0
  THEN << <<"\n\nSuggested strategies:\n">>
          \o JoinLines([i \in 1..Len(suggested) |-> StrategyLine(suggested[i])]) >>
  ELSE <<>>

\* lines 111-114
GenericSections ==
  << <<"\n\nYield farming means putting tokens into protocols to earn rewards. Common strategies include lending, staking, and providing liquidity.">>,
     <<"\nConnect a wallet to see personalized mock balances and strategy suggestions.">> >>

\* line 117
Disclaimer ==
  <<"\n\nThis is a demo with simulated transactions. Always consider risks and impermanent loss.">>

\* lines 82-117 with the positions section outside the wallet branch
RenderDemoText_PositionsAlways(walletAddress, result, list, total, suggested) ==
  <<Disclosure>>
  \o (IF Truthy(walletAddress)
      THEN <<WalletSection(walletAddress), TotalBalanceSection(result),
             BalancesSection(result)>>
      ELSE GenericSections)
  \o <<PositionsSection(list, total)>>
  \o (IF Truthy(walletAddress) THEN StrategiesSections(suggested) ELSE <<>>)
  \o <<Disclaimer>>

\* lines 82-117
RenderDemoText(walletAddress, result, list, total, suggested) ==
  <<Disclosure>>
  \o (IF Truthy(walletAddress)
      THEN <<WalletSection(walletAddress), TotalBalanceSection(result),
             BalancesSection(result), PositionsSection(list, total)>>
           \o StrategiesSections(suggested)
      ELSE GenericSections)
  \o <<Disclaimer>>

----------------------------------------------------------------------------
(* The frames of lines 121-127 *)

StartFrame == [type |-> "start"]
StartStepFrame == [type |-> "start-step"]
TextStartFrame == [type |-> "text-start", id |-> "text-1"]
TextDeltaFrame(text) == [type |-> "text-delta", id |-> "text-1", delta |-> text]
TextEndFrame == [type |-> "text-end", id |-> "text-1"]
FinishStepFrame == [type |-> "finish-step"]
FinishFrame == [type |-> "finish", finishReason |-> "stop"]

----------------------------------------------------------------------------
(* The Live path's pure parts *)

\* positions?.length || 0
PositionCount(positions) ==
  IF positions.t \in {"array", "string"} THEN Len(positions.v) ELSE 0

\* lines 135-146
BuildSystemPrompt(b) ==
  IF Truthy(b.walletAddress)
  THEN <<"SYSTEM_PROMPT", "\n\nWallet Status: CONNECTED", b.walletAddress,
         JsOr(b.mockBalances, Arr(<<>>)), PositionCount(b.positions)>>
  ELSE <<"SYSTEM_PROMPT", "\n\nWallet Status: NOT CONNECTED">>

\* line 151: convertToCoreMessages rejects a message whose role it does not know
ConvertThrows(messages) ==
  IsArray(messages) /\ \E i \in 1..Len(messages.v) : messages.v[i].role \notin {"system", "user", "assistant"}

ConversionErrorThrown == [statusCode |-> 0, message |-> "Unsupported role"]

\* lines 200-203 running the deposit on the server
ExecuteDepositTool_Executes == [success |-> TRUE, error |-> ""]

\* lines 200-203
ExecuteDepositTool == [success |-> FALSE, error |-> "Use client-side deposit action"]

\* lines 215-218
WithdrawFromPositionTool == [success |-> FALSE, error |-> "Use client-side withdraw action"]


----------------------------------------------------------------------------
(* The inputs drawn *)

ExampleAddress ==
  <<"0", "x", "A", "B", "C", "D", "E", "F", "1", "2", "3", "4", "5", "6", "7", "8", "9", "0">>

\* the address of n characters: the example address, repeated as far as needed
AddressOfLen(n) == [i \in 1..n |-> ExampleAddress[((i - 1) % Len(ExampleAddress)) + 1]]

WalletsAll == {Undefined} \cup {Str(AddressOfLen(n)) : n \in 0..MaxAddrLen}
WalletsFew == {Undefined, Str(ExampleAddress)}

UsdcBalance ==
  [t |-> "object", token |-> [symbol |-> Str(<<"USDC">>)], balance |-> "100", valueUSD |-> Num(100)]
EthBalance ==
  [t |-> "object", token |-> [symbol |-> Str(<<"ETH">>)], balance |-> "2", valueUSD |-> Num(1500)]
UnnamedBalance ==
  [t |-> "object", token |-> [symbol |-> Undefined], balance |-> "1", valueUSD |-> Num(1)]

NotAnArray == Str(<<"x">>)

MockBalancesAll ==
  {Undefined, NotAnArray, Arr(<<>>), Arr(<<UsdcBalance>>), Arr(<<EthBalance>>),
   Arr(<<UsdcBalance, EthBalance>>), Arr(<<UnnamedBalance>>)}
MockBalancesFew == {Undefined, Arr(<<UsdcBalance>>)}

Position(value) == [t |-> "object", id |-> "position", currentValue |-> value]

CurrentValues ==
  {Undefined, Null, NaN, Num(5), Num(7), Str(<<"a", "b", "c">>), Str(<<"1", "2">>)}

PositionElements == {Null} \cup {Position(value) : value \in CurrentValues}

PositionsAll ==
  {Undefined, NotAnArray}
  \cup {Arr(list) : list \in UNION {[1..k -> PositionElements] : k \in 0..MaxPositions}}
PositionsFew == {Undefined, Arr(<<>>), Arr(<<Position(Num(5))>>)}

UserMessage == [role |-> "user", content |-> "hi"]
AssistantMessage == [role |-> "assistant", content |-> "hello"]
UnknownRoleMessage == [role |-> "unknown", content |-> "hi"]

MessagesAll ==
  {Undefined, Null, Str(<<>>), Str(<<"h", "i">>), Arr(<<>>), Arr(<<UserMessage>>),
   Arr(<<UserMessage, AssistantMessage>>), Arr(<<UnknownRoleMessage>>)}
MessagesFew == {Undefined, Arr(<<UserMessage>>)}
MessagesTwo == {Arr(<<UserMessage>>), Arr(<<UserMessage, AssistantMessage>>)}

Body(m, w, b, p) ==
  [t |-> "object", messages |-> m, walletAddress |-> w, mockBalances |-> b, positions |-> p]

BodiesOf(ms, ws, bs, ps) == {Body(m, w, b, p) : m \in ms, w \in ws, b \in bs, p \in ps}

\* every shape of `messages`, little data
BodiesControl ==
  {Undefined} \cup BodiesOf(MessagesAll, WalletsFew, MockBalancesFew, PositionsFew)

\* every address, every positions list, every balances list
BodiesData ==
  BodiesOf(MessagesFew, WalletsAll, {Arr(<<UsdcBalance>>)}, {Arr(<<>>)})
  \cup BodiesOf(MessagesFew, WalletsFew, {Arr(<<>>)}, PositionsAll)
  \cup BodiesOf(MessagesFew, WalletsFew, MockBalancesAll, PositionsFew)

\* the wallets that select different strategies
BodiesStrategies ==
  {Undefined}
  \cup BodiesOf({Arr(<<UserMessage>>)}, {Str(ExampleAddress)},
              {Arr(<<>>), Arr(<<UsdcBalance>>)}, {Arr(<<>>)})

\* requests that differ in `messages` only
BodiesPair ==
  {Undefined} \cup BodiesOf(MessagesTwo, WalletsFew, MockBalancesFew, {Arr(<<>>), Arr(<<Position(Num(5))>>)})

LiveKey == Str(<<"sk-ant-live-key">>)

Credentials == {Undefined, Str(<<>>), PlaceholderKey, LiveKey}

Tokens == {Str(<<"USDC">>), Str(<<"ETH">>)}

Strategy(i, apy, token) ==
  [id |-> "s" \o ToString(i), name |-> "Strategy " \o ToString(i), protocol |-> "Protocol",
   apy |-> apy, riskLevel |-> "Low", token |-> token]

CatalogsOfLen(n) ==
  {[i \in 1..n |-> Strategy(i, f[i][1], f[i][2])] : f \in [1..n -> (1..MaxAPY) \X Tokens]}

CatalogsUpTo(n) == UNION {CatalogsOfLen(k) : k \in 0..n}

CatalogsFew == CatalogsUpTo(1)

StrategyIds == {"s1", "unknown"}

Amounts == {Str(<<"5">>), Str(<<"0">>), Str(<<"x">>)}


----------------------------------------------------------------------------
(* The state after construction *)

NoError == [statusCode |-> 0, message |-> ""]
NoResponse == [kind |-> "none"]
NoDemo == [kind |-> "none"]
NoToolCall == [name |-> "none"]

demoLocals == <<balances, positionsList, totalPositionsValue, balancesResult,
                tokenSymbols, strategyResult, suggestedStrategies, demoText>>

Fresh ==
  /\ apiKey = Undefined
  /\ hasApiKey = FALSE
  /\ balances = <<>>
  /\ positionsList = <<>>
  /\ totalPositionsValue = Num(0)
  /\ balancesResult = [totalValueUSD |-> Num(0), balances |-> <<>>]
  /\ tokenSymbols = <<>>
  /\ strategyResult = [strategies |-> <<>>]
  /\ suggestedStrategies = <<>>
  /\ demoText = <<>>
  /\ frames = <<>>
  /\ systemPrompt = <<>>
  /\ effects = <<>>
  /\ toolCalls = 0
  /\ lastTool = NoToolCall
  /\ thrown = NoError
  /\ response = NoResponse
  /\ mode = "none"

InitWith(catalogs, credentials) ==
  /\ catalog \in catalogs
  /\ env \in credentials
  /\ pc = "idle"
  /\ body = Undefined
  /\ Fresh
  /\ lastDemo = NoDemo

----------------------------------------------------------------------------
(* The handler, lines 47-231 *)

\* line 49: request b arrives
ReadBody(b) ==
  /\ body' = b
  /\ pc' = "validate"
  /\ UNCHANGED <<catalog, env, apiKey, hasApiKey, demoLocals, frames, systemPrompt, effects,
                 toolCalls, lastTool, thrown, response, mode, lastDemo>>

\* line 231: the request is over and its locals are gone; nothing but the
\* process-wide data outlives it
HandlerExit ==
  /\ pc = "done"
  /\ pc' = "idle"
  /\ body' = Undefined
  /\ apiKey' = Undefined
  /\ hasApiKey' = FALSE
  /\ balances' = <<>>
  /\ positionsList' = <<>>
  /\ totalPositionsValue' = Num(0)
  /\ balancesResult' = [totalValueUSD |-> Num(0), balances |-> <<>>]
  /\ tokenSymbols' = <<>>
  /\ strategyResult' = [strategies |-> <<>>]
  /\ suggestedStrategies' = <<>>
  /\ demoText' = <<>>
  /\ frames' = <<>>
  /\ systemPrompt' = <<>>
  /\ effects' = <<>>
  /\ toolCalls' = 0
  /\ lastTool' = NoToolCall
  /\ thrown' = NoError
  /\ response' = NoResponse
  /\ mode' = "none"
  /\ UNCHANGED <<catalog, env, lastDemo>>

\* line 59 reads the environment anew for each request: between two requests
\* the process may have been started again under another credential
Reconfigure ==
  /\ pc = "idle"
  /\ env' \in Credentials \ {env}
  /\ UNCHANGED <<catalog, pc, body, apiKey, hasApiKey, demoLocals, frames, systemPrompt,
                 effects, toolCalls, lastTool, thrown, response, mode, lastDemo>>

\* lines 50-57
ValidateMessages ==
  /\ pc = "validate"
  /\ IF DestructureThrows(body)
     THEN thrown' = TypeErrorThrown /\ pc' = "catch"
     ELSE IF MessagesInvalid(body.messages)
     THEN thrown' = InvalidRequestError /\ pc' = "catch"
     ELSE thrown' = thrown /\ pc' = "credential"
  /\ UNCHANGED <<catalog, env, body, apiKey, hasApiKey, demoLocals, frames, systemPrompt,
                 effects, toolCalls, lastTool, response, mode, lastDemo>>

\* lines 59-61: the credential is read from the process environment
ReadCredential ==
  /\ pc = "credential"
  /\ apiKey' = env
  /\ hasApiKey' = HasApiKey(env)
  /\ effects' = Append(effects, "process.env")
  /\ mode' = IF hasApiKey' THEN "live" ELSE "demo"
  /\ pc' = IF hasApiKey' THEN "live_prompt" ELSE "demo_normalize"
  /\ UNCHANGED <<catalog, env, body, demoLocals, frames, systemPrompt, toolCalls, lastTool, thrown,
                 response, lastDemo>>

\* lines 62-67
DemoNormalize ==
  /\ pc = "demo_normalize"
  /\ balances' = ArrayOrEmpty(body.mockBalances)
  /\ positionsList' = ArrayOrEmpty(body.positions)
  /\ totalPositionsValue' = TotalPositionsValue(positionsList')
  /\ pc' = "demo_tools"
  /\ UNCHANGED <<catalog, env, body, apiKey, hasApiKey, balancesResult, tokenSymbols,
                 strategyResult, suggestedStrategies, demoText, frames, systemPrompt,
                 effects, toolCalls, lastTool, thrown, response, mode, lastDemo>>

\* lines 68-72
DemoTools ==
  /\ pc = "demo_tools"
  /\ balancesResult' = ExecuteGetWalletBalances(balances)
  /\ tokenSymbols' = TokenSymbols(balances)
  /\ strategyResult' = ExecuteFindYieldStrategies(TokensFilter(tokenSymbols'))
  /\ effects' = effects \o <<"executeGetWalletBalances", "executeFindYieldStrategies">>
  /\ pc' = "demo_suggest"
  /\ UNCHANGED <<catalog, env, body, apiKey, hasApiKey, balances, positionsList,
                 totalPositionsValue, suggestedStrategies, demoText, frames,
                 systemPrompt, toolCalls, lastTool, thrown, response, mode, lastDemo>>

\* lines 73-75: the sort works on a copy
DemoSuggest ==
  /\ pc = "demo_suggest"
  /\ suggestedStrategies' = SuggestedStrategies(strategyResult.strategies)
  /\ pc' = "demo_render"
  /\ UNCHANGED <<catalog, env, body, apiKey, hasApiKey, balances, positionsList,
                 totalPositionsValue, balancesResult, tokenSymbols, strategyResult,
                 demoText, frames, systemPrompt, effects, toolCalls, lastTool, thrown, response,
                 mode, lastDemo>>

\* lines 82-117
DemoRender ==
  /\ pc = "demo_render"
  /\ demoText' = RenderDemoText(body.walletAddress, balancesResult, positionsList,
                                totalPositionsValue, suggestedStrategies)
  /\ pc' = "write_start"
  /\ UNCHANGED <<catalog, env, body, apiKey, hasApiKey, balances, positionsList,
                 totalPositionsValue, balancesResult, tokenSymbols, strategyResult,
                 suggestedStrategies, frames, systemPrompt, effects, toolCalls, lastTool, thrown,
                 response, mode, lastDemo>>

\* writer.write(frame), then on to `next`
Write(frame, next) ==
  /\ frames' = Append(frames, frame)
  /\ pc' = next
  /\ UNCHANGED <<catalog, env, body, apiKey, hasApiKey, demoLocals, systemPrompt, effects,
                 toolCalls, lastTool, thrown, response, mode, lastDemo>>

\* line 121
WriteStart == pc = "write_start" /\ Write(StartFrame, "write_start_step")
\* line 122
WriteStartStep == pc = "write_start_step" /\ Write(StartStepFrame, "write_text_start")
\* line 123
WriteTextStart == pc = "write_text_start" /\ Write(TextStartFrame, "write_text_delta")
\* line 124 sending the text in two chunks
WriteTextDelta_Chunked ==
  /\ pc = "write_text_delta"
  /\ frames' = frames \o <<TextDeltaFrame(SubSeq(demoText, 1, 1)),
                           TextDeltaFrame(SubSeq(demoText, 2, Len(demoText)))>>
  /\ pc' = "write_text_end"
  /\ UNCHANGED <<catalog, env, body, apiKey, hasApiKey, demoLocals, systemPrompt, effects,
                 toolCalls, lastTool, thrown, response, mode, lastDemo>>

\* line 124
WriteTextDelta == pc = "write_text_delta" /\ Write(TextDeltaFrame(demoText), "write_text_end")
\* line 125
WriteTextEnd == pc = "write_text_end" /\ Write(TextEndFrame, "write_finish_step")
\* line 126
WriteFinishStep == pc = "write_finish_step" /\ Write(FinishStepFrame, "write_finish")
\* line 127
WriteFinish == pc = "write_finish" /\ Write(FinishFrame, "demo_return")

\* what a Demo response leaves behind for the next one to be compared with
DemoRecord ==
  [kind |-> "demo", messages |-> body.messages, apiKey |-> apiKey,
   walletAddress |-> body.walletAddress, mockBalances |-> body.mockBalances,
   positions |-> body.positions, text |-> demoText]

\* line 131
DemoReturnWith(record) ==
  /\ response' = [kind |-> "stream", statusCode |-> 200]
  /\ lastDemo' = record
  /\ pc' = "done"
  /\ UNCHANGED <<catalog, env, body, apiKey, hasApiKey, demoLocals, frames, systemPrompt,
                 effects, toolCalls, lastTool, thrown, mode>>

DemoReturn == pc = "demo_return" /\ DemoReturnWith(lastDemo)

DemoReturnRecorded == pc = "demo_return" /\ DemoReturnWith(DemoRecord)

\* lines 135-146
LivePrompt ==
  /\ pc = "live_prompt"
  /\ systemPrompt' = BuildSystemPrompt(body)
  /\ pc' = "live_stream"
  /\ UNCHANGED <<catalog, env, body, apiKey, hasApiKey, demoLocals, frames, effects,
                 toolCalls, lastTool, thrown, response, mode, lastDemo>>

\* lines 149-221: the messages are converted, then the model session is opened
LiveStreamText ==
  /\ pc = "live_stream"
  /\ IF ConvertThrows(body.messages)
     THEN thrown' = ConversionErrorThrown /\ effects' = effects /\ pc' = "catch"
     ELSE thrown' = thrown /\ effects' = Append(effects, "streamText") /\ pc' = "live_return"
  /\ UNCHANGED <<catalog, env, body, apiKey, hasApiKey, demoLocals, frames, systemPrompt,
                 toolCalls, lastTool, response, mode, lastDemo>>

\* line 223: the handler returns while the session streams on
LiveReturn ==
  /\ pc = "live_return"
  /\ response' = [kind |-> "stream", statusCode |-> 200]
  /\ pc' = "streaming"
  /\ UNCHANGED <<catalog, env, body, apiKey, hasApiKey, demoLocals, frames, systemPrompt,
                 effects, toolCalls, lastTool, thrown, mode, lastDemo>>

\* lines 224-229: whatever the try block threw leaves as a 500
CatchError ==
  /\ pc = "catch"
  /\ response' = [kind |-> "error", statusCode |-> 500, message |-> thrown.message]
  /\ pc' = "done"
  /\ UNCHANGED <<catalog, env, body, apiKey, hasApiKey, demoLocals, frames, systemPrompt,
                 effects, toolCalls, lastTool, thrown, mode, lastDemo>>


----------------------------------------------------------------------------
(* The tools of the model session, lines 154-220.  The session validates a *)
(* call's arguments against the tool's schema and runs `execute` only on   *)
(* valid ones; an exception of `execute` becomes a failed tool result.     *)

Returned(value) == [threw |-> FALSE, value |-> value]

\* the session is open and may call a tool
CanInvoke == pc = "streaming" /\ toolCalls < MaxToolCalls

InvokeTool(name, valid, result) ==
  /\ toolCalls' = toolCalls + 1
  /\ lastTool' =
       IF valid
       THEN [name |-> name, invoked |-> TRUE, threw |-> result.threw, value |-> result.value]
       ELSE [name |-> name, invoked |-> FALSE, threw |-> FALSE, value |-> "ToolInputInvalid"]
  /\ UNCHANGED <<catalog, env, pc, body, apiKey, hasApiKey, demoLocals, frames, systemPrompt,
                 effects, thrown, response, mode, lastDemo>>

\* line 158: executeGetWalletBalances(mockBalances || []); a snapshot that is
\* no array is taken to throw
GetWalletBalancesTool ==
  LET arg == JsOr(body.mockBalances, Arr(<<>>))
  IN IF IsArray(arg) THEN Returned(ExecuteGetWalletBalances(arg.v))
     ELSE [threw |-> TRUE, value |-> "TypeError"]

\* line 208: executeGetPositions(positions || []), likewise
GetPositionsTool ==
  LET arg == JsOr(body.positions, Arr(<<>>))
  IN IF IsArray(arg) THEN Returned(ExecuteGetPositions(arg.v))
     ELSE [threw |-> TRUE, value |-> "TypeError"]

\* lines 155-159
GetWalletBalancesCall ==
  /\ CanInvoke
  /\ InvokeTool("get_wallet_balances", TRUE, GetWalletBalancesTool)

\* lines 160-166
ClassifyTokensCall ==
  /\ CanInvoke
  /\ \E valid \in BOOLEAN :
       InvokeTool("classify_tokens", valid, Returned("classification"))

\* lines 167-175
FindYieldStrategiesCall ==
  /\ CanInvoke
  /\ \E valid \in BOOLEAN, tokens \in {Undefined, Arr(<<Str(<<"USDC">>)>>)} :
       InvokeTool("find_yield_strategies", valid, Returned(ExecuteFindYieldStrategies(tokens)))

\* lines 176-182
GetStrategyDetailsCall ==
  /\ CanInvoke
  /\ \E valid \in BOOLEAN, strategyId \in StrategyIds :
       InvokeTool("get_strategy_details", valid, ExecuteGetStrategyDetails(strategyId))

\* lines 183-192
PreviewDepositCall ==
  /\ CanInvoke
  /\ \E valid \in BOOLEAN, strategyId \in StrategyIds, amount \in Amounts :
       InvokeTool("preview_deposit", valid, ExecutePreviewDeposit(strategyId, amount))

\* lines 193-204
ExecuteDepositCall ==
  /\ CanInvoke
  /\ \E valid \in BOOLEAN :
       InvokeTool("execute_deposit", valid, Returned(ExecuteDepositTool))

\* lines 205-209
GetPositionsCall ==
  /\ CanInvoke
  /\ InvokeTool("get_positions", TRUE, GetPositionsTool)

\* lines 210-219
WithdrawFromPositionCall ==
  /\ CanInvoke
  /\ \E valid \in BOOLEAN :
       InvokeTool("withdraw_from_position", valid, Returned(WithdrawFromPositionTool))

\* the model session ends
SessionFinish ==
  /\ pc = "streaming"
  /\ pc' = "done"
  /\ UNCHANGED <<catalog, env, body, apiKey, hasApiKey, demoLocals, frames, systemPrompt,
                 effects, toolCalls, lastTool, thrown, response, mode, lastDemo>>

----------------------------------------------------------------------------
(* Specifications *)

HandlerStep ==
  \/ ValidateMessages
  \/ ReadCredential
  \/ DemoNormalize
  \/ DemoTools
  \/ DemoSuggest
  \/ DemoRender
  \/ WriteStart
  \/ WriteStartStep
  \/ WriteTextStart
  \/ WriteTextDelta
  \/ WriteTextEnd
  \/ WriteFinishStep
  \/ WriteFinish
  \/ LivePrompt
  \/ LiveStreamText
  \/ LiveReturn
  \/ SessionFinish
  \/ CatchError
  \/ HandlerExit

ToolStep ==
  \/ GetWalletBalancesCall
  \/ ClassifyTokensCall
  \/ FindYieldStrategiesCall
  \/ GetStrategyDetailsCall
  \/ PreviewDepositCall
  \/ ExecuteDepositCall
  \/ GetPositionsCall
  \/ WithdrawFromPositionCall

\* the whole handler with its tools, over every shape of request
Init == InitWith(CatalogsFew, Credentials)
ReadBodyControl == pc = "idle" /\ \E b \in BodiesControl : ReadBody(b)
Next == Reconfigure \/ ReadBodyControl \/ HandlerStep \/ DemoReturn \/ ToolStep
Spec == Init /\ [][Next]_vars

\* the handler over every address, balances list and positions list
InitData == InitWith(CatalogsFew, Credentials)
ReadBodyData == pc = "idle" /\ \E b \in BodiesData : ReadBody(b)
NextData == Reconfigure \/ ReadBodyData \/ HandlerStep \/ DemoReturn
SpecData == InitData /\ [][NextData]_vars

\* the handler over every strategy catalogue, in a process whose credential stays
InitStrategies == InitWith(CatalogsUpTo(MaxStrategies), {Undefined, LiveKey})
ReadBodyStrategies == pc = "idle" /\ \E b \in BodiesStrategies : ReadBody(b)
NextStrategies == ReadBodyStrategies \/ HandlerStep \/ DemoReturn
SpecStrategies == InitStrategies /\ [][NextStrategies]_vars

\* the handler remembering its previous Demo response
InitPair == InitWith(CatalogsFew, Credentials)
ReadBodyPair == pc = "idle" /\ \E b \in BodiesPair : ReadBody(b)
NextPair == Reconfigure \/ ReadBodyPair \/ HandlerStep \/ DemoReturnRecorded
SpecPair == InitPair /\ [][NextPair]_vars


----------------------------------------------------------------------------
(* Properties *)

InEffects(e) == \E i \in 1..Len(effects) : effects[i] = e

\* a request is being handled or has been answered
InRequest == pc # "idle"

\* the request's `messages` is absent or no array
MessagesMissingOrNotArray ==
  InRequest /\ (body.t # "object" \/ body.messages.t # "array")

MessagesWellFormed == InRequest /\ body.t = "object" /\ body.messages.t = "array"

DemoPositions ==
  {"demo_normalize", "demo_tools", "demo_suggest", "demo_render", "write_start",
   "write_start_step", "write_text_start", "write_text_delta", "write_text_end",
   "write_finish_step", "write_finish", "demo_return", "done"}

LivePositions == {"live_prompt", "live_stream", "live_return", "streaming", "catch", "done"}

DemoForcing == {Undefined, Str(<<>>), PlaceholderKey}

\* the Demo text has been rendered
TextRendered ==
  mode = "demo" /\ pc \notin {"demo_normalize", "demo_tools", "demo_suggest", "demo_render"}

\* C1: a request whose `messages` is absent or no array ends as an
\* InvalidRequest failure with status 400, and not with the status 500 of
\* the generic failure.
C1_InvalidRequestIs400 ==
  (pc = "done" /\ body.t = "object" /\ body.messages.t # "array")
    => (response.kind = "error" /\ response.statusCode = 400)

\* C2: a request with a well-formed `messages` array runs in Demo mode
\* exactly when the credential is absent, empty or the placeholder, and in
\* Live mode otherwise; a Demo execution never opens a model session.
C2_ModeByCredential ==
  /\ (MessagesWellFormed /\ pc \notin {"validate", "credential"}) => mode \in {"demo", "live"}
  /\ mode = "demo" =>
       /\ apiKey \in DemoForcing
       /\ pc \in DemoPositions
       /\ ~InEffects("streamText")
       /\ systemPrompt = <<>>
  /\ mode = "live" =>
       /\ apiKey \notin DemoForcing
       /\ pc \in LivePositions
       /\ frames = <<>> /\ demoText = <<>>
  /\ (mode = "live" /\ pc \in {"live_return", "streaming"}) => InEffects("streamText")

C2_Witness == pc = "done" /\ mode = "demo" /\ apiKey = PlaceholderKey /\ Len(frames) > 0

\* the seven frames of a Demo stream carrying `text`
DemoStream(text) ==
  << [type |-> "start"],
     [type |-> "start-step"],
     [type |-> "text-start", id |-> "text-1"],
     [type |-> "text-delta", id |-> "text-1", delta |-> text],
     [type |-> "text-end", id |-> "text-1"],
     [type |-> "finish-step"],
     [type |-> "finish", finishReason |-> "stop"] >>

FramesOfType(type) == {i \in 1..Len(frames) : frames[i].type = type}

\* C3: a Demo stream is start, start-step, text-start(id), one text-delta(id)
\* with the whole text, text-end(id), finish-step, finish(stop): it grows in
\* that order, is complete when the handler returns, and nothing follows
\* `finish`.
C3_DemoFrameSequence ==
  /\ mode = "demo" =>
       /\ Len(frames) <= 7
       /\ frames = SubSeq(DemoStream(demoText), 1, Len(frames))
  /\ (mode = "demo" /\ pc \in {"demo_return", "done"}) =>
       /\ frames = DemoStream(demoText)
       /\ FramesOfType("start") = {1}
       /\ FramesOfType("finish") = {Len(frames)}
       /\ Cardinality(FramesOfType("text-delta")) = 1
       /\ Cardinality(FramesOfType("text-start")) = 1
       /\ Cardinality(FramesOfType("text-end")) = 1
  /\ mode # "demo" => frames = <<>>

C3_Witness ==
  pc = "done" /\ mode = "demo" /\ Len(frames) = 7 /\ Truthy(body.walletAddress)
  /\ frames[4].delta = demoText /\ Len(demoText) > 4

\* the wallet line of the rendered text, and the address it shows
WalletRendered == TextRendered /\ Truthy(body.walletAddress)
RenderedAddress == Tail(demoText[2])

AbbreviatedWith(address, mark) ==
  IF Len(address) <= 10 THEN address
  ELSE SubSeq(address, 1, 6) \o mark \o SubSeq(address, Len(address) - 3, Len(address))

\* C4 as claimed: an address of at most 10 characters is rendered unchanged,
\* a longer one as its first 6 characters, the single character U+2026 and
\* its last 4 characters.
C4_EllipsisCharacter ==
  WalletRendered =>
    /\ demoText[2][1] = "\n\nWallet: "
    /\ RenderedAddress = AbbreviatedWith(body.walletAddress.v, <<"U+2026">>)

\* C4 as amended: an address of at most 10 characters is rendered unchanged,
\* a longer one as its first 6 characters, three full stops and its last 4
\* characters; 0xABCDEF1234567890 is rendered as 0xABCD...7890.
C4_ThreeFullStops ==
  WalletRendered =>
    /\ demoText[2][1] = "\n\nWallet: "
    /\ RenderedAddress = AbbreviatedWith(body.walletAddress.v, <<".", ".", ".">>)
    /\ body.walletAddress.v = ExampleAddress =>
         RenderedAddress = <<"0", "x", "A", "B", "C", "D", ".", ".", ".", "7", "8", "9", "0">>

C4_Witness ==
  pc = "done" /\ WalletRendered /\ body.walletAddress.v = ExampleAddress
  /\ Len(RenderedAddress) = 13


\* what a position adds to the total when a missing or non-numeric
\* `currentValue` counts as 0
NumericOrZero(position) ==
  LET value == IF position.t = "object" THEN position.currentValue ELSE Undefined
  IN CASE value.t = "number" -> value.n
       [] value.t = "string" /\ value.v # <<>> /\ (\A i \in 1..Len(value.v) : IsDigit(value.v[i]))
            -> DecimalValue(value.v)
       [] OTHER -> 0

RECURSIVE SumNumericOrZero(_)
SumNumericOrZero(list) ==
  IF list = <<>> THEN 0 ELSE NumericOrZero(Head(list)) + SumNumericOrZero(Tail(list))

\* the positions the request carries, an absent or malformed list being empty
RequestPositions == IF body.positions.t = "array" THEN body.positions.v ELSE <<>>

HasSection(label) == \E i \in 1..Len(demoText) : demoText[i][1] = label

\* C5: in Demo mode the total position value is the sum of `currentValue`
\* over the positions, a missing or non-numeric value counting as 0; with no
\* positions the total is 0 and the text says "Active positions: none yet".
C5_NonNumericCountsAsZero ==
  /\ (mode = "demo" /\ pc # "demo_normalize") =>
       totalPositionsValue = Num(SumNumericOrZero(RequestPositions))
  /\ (WalletRendered /\ RequestPositions = <<>>) =>
       /\ totalPositionsValue = Num(0)
       /\ HasSection("\n\nActive positions: none yet.")

\* the strategies the search returned, and the selection made from them
Found == strategyResult.strategies
Selected == suggestedStrategies

\* the selection has been made
SelectionMade == mode = "demo" /\ pc \notin {"demo_normalize", "demo_tools", "demo_suggest"}

PlaceIn(list, strategy) == CHOOSE i \in 1..Len(list) : list[i] = strategy

IsSelected(strategy) == \E k \in 1..Len(Selected) : Selected[k] = strategy

\* C6: for a non-empty search result the suggested strategies are the first
\* min(3, n) entries of the result stable-sorted by descending APY: taken
\* from the result without repetition, APYs non-increasing, equal APYs in
\* their original order, nothing left out that ranks before a selected
\* strategy, and the result itself left in the order the search returned.
C6_TopThreeByApyStable ==
  (SelectionMade /\ Len(Found) > 0) =>
    /\ Len(Selected) = Min(3, Len(Found))
    /\ \A k \in 1..Len(Selected) : \E i \in 1..Len(Found) : Found[i] = Selected[k]
    /\ \A j, k \in 1..Len(Selected) :
         j < k =>
           /\ Selected[j] # Selected[k]
           /\ Selected[j].apy >= Selected[k].apy
           /\ Selected[j].apy = Selected[k].apy =>
                PlaceIn(Found, Selected[j]) < PlaceIn(Found, Selected[k])
    /\ \A i \in 1..Len(Found), k \in 1..Len(Selected) :
         ~IsSelected(Found[i]) =>
           /\ Found[i].apy <= Selected[k].apy
           /\ Found[i].apy = Selected[k].apy => i > PlaceIn(Found, Selected[k])
    /\ Found = ExecuteFindYieldStrategies(TokensFilter(TokenSymbols(balances))).strategies

C6_Witness ==
  /\ pc = "done" /\ SelectionMade
  /\ Len(Found) = 4 /\ Len(Selected) = 3
  /\ Selected # SubSeq(Found, 1, 3)
  /\ Selected[1].apy = Selected[2].apy /\ Selected[2].apy > Selected[3].apy
  /\ \E i \in 1..4 : ~IsSelected(Found[i]) /\ Found[i].apy = Selected[3].apy

\* C7: execute_deposit and withdraw_from_position, whenever the session runs
\* them, return a result with success = false without throwing, never report
\* success, and leave the request's balances and positions as they were.
C7_MutatingToolsRefuse ==
  /\ [](lastTool.name \in {"execute_deposit", "withdraw_from_position"} =>
          IF lastTool.invoked
          THEN lastTool.threw = FALSE /\ lastTool.value.success = FALSE
          ELSE lastTool.value = "ToolInputInvalid")
  /\ [][(toolCalls' # toolCalls
          /\ lastTool'.name \in {"execute_deposit", "withdraw_from_position"})
          => body' = body]_vars

C7_Witness ==
  /\ pc = "streaming" /\ toolCalls = MaxToolCalls
  /\ lastTool.name = "execute_deposit" /\ lastTool.invoked
  /\ lastTool.value.success = FALSE
  /\ body.positions.t = "array" /\ Len(body.positions.v) > 0

\* C8: two Demo responses to requests with the same walletAddress,
\* mockBalances and positions carry the same text, whatever their `messages`
\* and whichever Demo-forcing credential each ran under.
C8_DemoTextPure ==
  (pc = "demo_return" /\ lastDemo.kind = "demo"
     /\ lastDemo.walletAddress = body.walletAddress
     /\ lastDemo.mockBalances = body.mockBalances
     /\ lastDemo.positions = body.positions)
    => (demoText = lastDemo.text /\ frames[4].delta = lastDemo.text)

C8_Witness ==
  /\ pc = "demo_return" /\ lastDemo.kind = "demo"
  /\ lastDemo.walletAddress = body.walletAddress
  /\ lastDemo.mockBalances = body.mockBalances
  /\ lastDemo.positions = body.positions
  /\ lastDemo.messages # body.messages
  /\ lastDemo.apiKey = Undefined /\ apiKey = PlaceholderKey
  /\ Truthy(body.walletAddress) /\ Len(balances) > 0 /\ Len(positionsList) > 0

\* C9: a request whose `messages` is absent or no array is rejected before
\* anything else happens: the credential is not read, no domain function is
\* called, no model session is opened, no frame is written, whatever the
\* other fields and the configured credential.
C9_ValidationFailsFast ==
  MessagesMissingOrNotArray =>
    /\ pc \in {"validate", "catch", "done"}
    /\ effects = <<>>
    /\ mode = "none" /\ apiKey = Undefined /\ hasApiKey = FALSE
    /\ frames = <<>> /\ demoText = <<>> /\ systemPrompt = <<>>
    /\ toolCalls = 0
    /\ pc = "done" => response.kind = "error"
    /\ (pc = "done" /\ body.t = "object") =>
         response.message = "Invalid request: messages array required"

C9_Witness ==
  /\ pc = "done" /\ body.t = "object" /\ body.messages = Str(<<"h", "i">>)
  /\ Truthy(body.walletAddress) /\ body.mockBalances.t = "array"
  /\ env = LiveKey
  /\ response.kind = "error"

PersonalLabels ==
  {"\n\nWallet: ", "\nTotal balance: ", "\n\nBalances:\n",
   "\n\nBalances: none yet. Connect a wallet to generate mock balances.",
   "\n\nActive positions: ", "\n\nActive positions: none yet.",
   "\n\nSuggested strategies:\n"}

HasBalancesSection ==
  \/ HasSection("\n\nBalances:\n")
  \/ HasSection("\n\nBalances: none yet. Connect a wallet to generate mock balances.")

HasPositionsSection ==
  HasSection("\n\nActive positions: ") \/ HasSection("\n\nActive positions: none yet.")

HasStrategiesSection == HasSection("\n\nSuggested strategies:\n")

HasGenericText ==
  /\ HasSection("\n\nYield farming means putting tokens into protocols to earn rewards. Common strategies include lending, staking, and providing liquidity.")
  /\ HasSection("\nConnect a wallet to see personalized mock balances and strategy suggestions.")

StartsAndEndsAsScripted ==
  /\ demoText[1] = <<"Demo mode: ANTHROPIC_API_KEY is not set, so responses are scripted.">>
  /\ demoText[Len(demoText)] =
       <<"\n\nThis is a demo with simulated transactions. Always consider risks and impermanent loss.">>

NoPersonalSection == \A i \in 1..Len(demoText) : demoText[i][1] \notin PersonalLabels

\* C10 as claimed: the text begins with the disclosure and ends with the
\* disclaimer; the wallet line, total balance, balances, active positions and
\* suggested strategies sections are all rendered if and only if a wallet
\* address is present, and otherwise the generic text and none of them.
C10_AllSectionsWithWallet ==
  TextRendered =>
    /\ StartsAndEndsAsScripted
    /\ Truthy(body.walletAddress) <=>
         /\ HasSection("\n\nWallet: ") /\ HasSection("\nTotal balance: ")
         /\ HasBalancesSection /\ HasPositionsSection /\ HasStrategiesSection
    /\ ~Truthy(body.walletAddress) => (HasGenericText /\ NoPersonalSection)

\* C10 as amended: the text begins with the disclosure and ends with the
\* disclaimer; the wallet line, total balance, balances and active positions
\* sections are rendered if and only if a non-empty wallet address is
\* present, the suggested strategies section if and only if moreover the
\* selection is not empty; with no wallet address the generic text is
\* rendered and no personalized section, whatever the balances and positions.
C10_SectionsWithWallet ==
  TextRendered =>
    /\ StartsAndEndsAsScripted
    /\ Truthy(body.walletAddress) <=> HasSection("\n\nWallet: ")
    /\ Truthy(body.walletAddress) <=> HasSection("\nTotal balance: ")
    /\ Truthy(body.walletAddress) <=> HasBalancesSection
    /\ Truthy(body.walletAddress) <=> HasPositionsSection
    /\ (Truthy(body.walletAddress) /\ Len(suggestedStrategies) > 0) <=> HasStrategiesSection
    /\ Truthy(body.walletAddress) <=> ~HasGenericText
    /\ ~Truthy(body.walletAddress) => (HasGenericText /\ NoPersonalSection)

C10_Witness ==
  /\ pc = "done" /\ TextRendered
  /\ ~Truthy(body.walletAddress)
  /\ Len(balances) > 0 /\ Len(positionsList) > 0 /\ Len(suggestedStrategies) > 0
  /\ Len(demoText) = 4

=============================================================================
